---- MODULE Spec2Model ----
(***************************************************************************)
(* Model of S3Tools (src/src/S3Tools.js): getObject, putJsonObject,        *)
(* _formatGetObjectResponse and emptyS3Directory, together with the        *)
(* storage client they call (cli.getObject, cli.putObject,                 *)
(* cli.listObjectsV2, cli.deleteObjects) and the retry helper utils.retry. *)
(*                                                                         *)
(* JavaScript values are records carrying their typeof tag in field t, so  *)
(* that the typeof tests of the validation are computed, not assumed.      *)
(* Byte strings and texts are sequences of tokens.                         *)
(***************************************************************************)
EXTENDS Integers, Sequences, FiniteSets, TLC

VARIABLES
    retryMax,   \* this.retryMax, set by the constructor
    op,         \* which method the caller invoked: "none", "get", "put", "empty"
    args,       \* the arguments of the invocation, defaults applied
    param,      \* the const param of getObject / putJsonObject
    pc,         \* position of the getObject / putJsonObject invocation
    attempt,    \* attempt number inside utils.retry (0: retry not entered)
    delay,      \* backoff delay before the next attempt of utils.retry
    fetched,    \* data awaited by the zlib.gunzip callback
    result,     \* settlement of the promise returned by getObject / putJsonObject
    settles,    \* number of resolve/reject calls made on that promise
    calls,      \* log of the remote calls issued, in order, with their outcome
    store,      \* keys under (bucket, prefix) in the storage service, in listing order
    inv,        \* the emptyS3Directory invocations, inv[1] is the caller's
    uncaught,   \* errors thrown outside every promise, and unhandled rejections
    crashed     \* the process was terminated by an uncaught error

vars == <<retryMax, op, args, param, pc, attempt, delay, fetched, result,
          settles, calls, store, inv, uncaught, crashed>>

----------------------------------------------------------------------------
(* Bounds of the model                                                     *)

MaxOptRetry == 2      \* opt.retryMax ranges over 0 (absent) .. MaxOptRetry
PageSize == 2         \* keys per listing page of the storage service
MaxPages == 3         \* the prefix holds at most MaxPages full pages
MaxObjects == MaxPages * PageSize

(* Program constants                                                       *)

DefaultRetryMax == 5
BAD_PARAM == "S3_TOOLS_BAD_PARAM"
FILE_NOT_EXIST == "FILE_NOT_FOUND"
GET_OBJECT_RETURN_TYPE_ALLOWED == {"string", "buffer", "object", "all"}

----------------------------------------------------------------------------
(* JavaScript values                                                       *)

Str(s) == [t |-> "string", s |-> s]
Num(s) == [t |-> "number", s |-> s]
Bool(s) == [t |-> "boolean", s |-> s]
Undefined == [t |-> "undefined", s |-> ""]

TypeOf(x) == x.t

\* A structured value: k is "obj" (a flat object, f its fields in order,
\* each <<name, value token>>) or "null".  typeof null is "object".
Obj(f) == [t |-> "object", k |-> "obj", f |-> f]
Null == [t |-> "object", k |-> "null", f |-> <<>>]
Prim(tok) == [t |-> IF tok = "null" THEN "object" ELSE "number",
              k |-> IF tok = "null" THEN "null" ELSE "prim",
              f |-> IF tok = "null" THEN <<>> ELSE << <<"", tok>> >>]

\* Errors.  call is the index in calls of the remote call that produced
\* the error, 0 for an error raised locally.
Err(name) == [name |-> name, retryable |-> FALSE, call |-> 0]
ServiceError(r, k) == [name |-> "ServiceError", retryable |-> r, call |-> k]

Pending == [kind |-> "pending"]
Resolved(v) == [kind |-> "resolved", val |-> v]
Rejected(e) == [kind |-> "rejected", err |-> e]

----------------------------------------------------------------------------
(* JSON.stringify and JSON.parse on token sequences                        *)

RECURSIVE StringifyFields(_, _)
StringifyFields(f, first) ==
    IF f = <<>> THEN <<>>
    ELSE IF f[1][2] = "undefined" THEN StringifyFields(Tail(f), first)
    ELSE (IF first THEN <<>> ELSE <<",">>)
         \o <<f[1][1], ":", IF f[1][2] = "NaN" THEN "null" ELSE f[1][2]>>
         \o StringifyFields(Tail(f), FALSE)

\* JSON.stringify(json) of a value whose typeof is "object"
JSONStringify(v) ==
    IF v.k = "null" THEN <<"null">>
    ELSE <<"{">> \o StringifyFields(v.f, TRUE) \o <<"}">>

JsonPrimTokens == {"1", "2", "null"}
JsonNameTokens == {"a", "b"}

\* members: name ":" value ( "," name ":" value )* "}" ; result is the field
\* list, or <<"error">> when the tokens are not of that shape.
RECURSIVE ParseMembers(_)
ParseMembers(toks) ==
    IF Len(toks) >= 4 /\ toks[1] \in JsonNameTokens /\ toks[2] = ":"
       /\ toks[3] \in JsonPrimTokens
    THEN IF toks[4] = "}" /\ Len(toks) = 4
         THEN << <<toks[1], toks[3]>> >>
         ELSE IF toks[4] = ","
              THEN LET rest == ParseMembers(SubSeq(toks, 5, Len(toks)))
                   IN IF rest = <<"error">> THEN rest
                      ELSE << <<toks[1], toks[3]>> >> \o rest
              ELSE <<"error">>
    ELSE <<"error">>

\* JSON.parse(text): [ok |-> TRUE, val |-> value] or [ok |-> FALSE] (SyntaxError)
JSONParse(toks) ==
    IF Len(toks) = 1 /\ toks[1] \in JsonPrimTokens
    THEN [ok |-> TRUE, val |-> Prim(toks[1])]
    ELSE IF toks = <<"{", "}">> THEN [ok |-> TRUE, val |-> Obj(<<>>)]
    ELSE IF Len(toks) >= 1 /\ toks[1] = "{"
         THEN LET m == ParseMembers(Tail(toks))
              IN IF m = <<"error">> THEN [ok |-> FALSE, val |-> Null]
                 ELSE [ok |-> TRUE, val |-> Obj(m)]
         ELSE [ok |-> FALSE, val |-> Null]

----------------------------------------------------------------------------
(* Bodies, zlib                                                            *)

\* data.Body: kind "undefined" (no Body), "string" (a Body that is no
\* Buffer) or "buffer".
NoBody == [kind |-> "undefined", bytes |-> <<>>]
Buffer(b) == [kind |-> "buffer", bytes |-> b]
StringBody(b) == [kind |-> "string", bytes |-> b]

\* gzip stream of a byte string: the magic header followed by the payload
Gzip(b) == <<"GZ">> \o b

\* zlib.gunzip: fails on anything that is not a gzip stream
Gunzip(b) ==
    IF Len(b) >= 1 /\ b[1] = "GZ"
    THEN [ok |-> TRUE, bytes |-> Tail(b)]
    ELSE [ok |-> FALSE, bytes |-> <<>>]

\* !data.Body : undefined and the empty string are falsy, a Buffer never is
Falsy(body) ==
    \/ body.kind = "undefined"
    \/ body.kind = "string" /\ body.bytes = <<>>

IsBuffer(body) == body.kind = "buffer"

----------------------------------------------------------------------------
(* The storage service, as seen through this.cli                           *)

ValidJson == <<"{", "a", ":", "1", "}">>
NotJson == <<"oops">>

\* Bodies a GetObject response can carry
Bodies ==
    { NoBody, StringBody(ValidJson), Buffer(<<>>), Buffer(ValidJson),
      Buffer(NotJson), Buffer(Gzip(ValidJson)), Buffer(Gzip(NotJson)) }

Data(body) == [Body |-> body, ETag |-> "etag"]

\* Outcomes of the remote call number k: an error, retryable or not, or data
ErrorsOf(k) == { ServiceError(r, k) : r \in BOOLEAN }

Ack(k) == [ETag |-> "etag", call |-> k]

\* The call just issued is appended to the log as in flight
Issue(log, name, p) ==
    Append(log, [op |-> name, param |-> p, status |-> "inflight", resp |-> <<>>])

\* The in-flight call, the last of the log, gets its outcome: status "ok"
\* with the data, "retryable" or "fatal" with the error
Answer(log, st, r) == [log EXCEPT ![Len(log)].status = st, ![Len(log)].resp = r]

ErrStatus(err) == IF err.retryable THEN "retryable" ELSE "fatal"

----------------------------------------------------------------------------
(* constructor                                                             *)

\* this.retryMax = opt.retryMax || 5 ; 0 stands for an absent opt.retryMax
Constructor(o) == IF o = 0 THEN DefaultRetryMax ELSE o

Init ==
    /\ retryMax \in { Constructor(o) : o \in 0..MaxOptRetry }
    /\ op = "none"
    /\ args = <<>>
    /\ param = <<>>
    /\ pc = "idle"
    /\ attempt = 0
    /\ delay = 0
    /\ fetched = <<>>
    /\ result = Pending
    /\ settles = 0
    /\ calls = <<>>
    /\ store \in { [i \in 1..n |-> i] : n \in 0..MaxObjects }
    /\ inv = <<>>
    /\ uncaught = {}
    /\ crashed = FALSE

\* resolve / reject of the promise returned to the caller
Settle(r) ==
    /\ result' = r
    /\ settles' = settles + 1
    /\ pc' = "done"

----------------------------------------------------------------------------
(* _formatGetObjectResponse                                                *)

TypeError == Err("TypeError")
SyntaxError == Err("SyntaxError")
ZlibError == Err("Z_DATA_ERROR")

FResolve(v) == [kind |-> "resolve", val |-> v]
FReject(e) == [kind |-> "reject", err |-> e]
FGunzip == [kind |-> "gunzip"]
FThrow(e) == [kind |-> "throw", err |-> e]

\* zlib.gunzip(data.Body, cb): throws synchronously, inside the promise
\* executor, when Body is undefined; otherwise the callback is pending.
GunzipCall(data) ==
    IF data.Body.kind = "undefined" THEN FReject(TypeError) ELSE FGunzip

\* resolve(JSON.parse(text)) in the promise executor: a throw rejects
ParseInExecutor(text) ==
    LET p == JSONParse(text)
    IN IF p.ok THEN FResolve(p.val) ELSE FReject(SyntaxError)

\* resolve(JSON.parse(text)) in the zlib callback: a throw is not caught
ParseInCallback(text) ==
    LET p == JSONParse(text)
    IN IF p.ok THEN FResolve(p.val) ELSE FThrow(SyntaxError)

\* Mutant: the full response is decompressed too when gzip is set
FormatSyncGunzipAll(data, returnType, gzip) ==
    CASE returnType = "buffer" ->
           IF ~gzip THEN FResolve(data.Body) ELSE GunzipCall(data)
      [] returnType = "string" ->
           IF ~gzip
           THEN IF data.Body.kind = "undefined" THEN FReject(TypeError)
                ELSE FResolve(StringBody(data.Body.bytes))
           ELSE GunzipCall(data)
      [] returnType = "object" ->
           IF ~gzip
           THEN IF data.Body.kind = "undefined" THEN FReject(TypeError)
                ELSE ParseInExecutor(data.Body.bytes)
           ELSE GunzipCall(data)
      [] OTHER -> IF ~gzip THEN FResolve(data) ELSE GunzipCall(data)

\* Mutant: the text is returned without being parsed
FormatSyncNoParse(data, returnType, gzip) ==
    CASE returnType = "buffer" ->
           IF ~gzip THEN FResolve(data.Body) ELSE GunzipCall(data)
      [] returnType \in {"string", "object"} ->
           IF ~gzip
           THEN IF data.Body.kind = "undefined" THEN FReject(TypeError)
                ELSE FResolve(StringBody(data.Body.bytes))
           ELSE GunzipCall(data)
      [] OTHER -> FResolve(data)

\* The synchronous part of _formatGetObjectResponse(data, returnType, gzip)
FormatSync(data, returnType, gzip) ==
    CASE returnType = "buffer" ->
           IF ~gzip THEN FResolve(data.Body) ELSE GunzipCall(data)
      [] returnType = "string" ->
           IF ~gzip
           THEN IF data.Body.kind = "undefined" THEN FReject(TypeError)
                ELSE FResolve(StringBody(data.Body.bytes))
           ELSE GunzipCall(data)
      [] returnType = "object" ->
           IF ~gzip
           THEN IF data.Body.kind = "undefined" THEN FReject(TypeError)
                ELSE ParseInExecutor(data.Body.bytes)
           ELSE GunzipCall(data)
      [] OTHER -> FResolve(data)

\* The callback of zlib.gunzip in _formatGetObjectResponse
FormatGunzipped(data, returnType) ==
    LET g == Gunzip(data.Body.bytes)
    IN IF ~g.ok THEN FReject(ZlibError)
       ELSE CASE returnType = "buffer" -> FResolve(Buffer(g.bytes))
              [] returnType = "string" -> FResolve(StringBody(g.bytes))
              [] OTHER -> ParseInCallback(g.bytes)

\* The promise of getObject follows the outcome of the formatter
ApplyFormat(out, data) ==
    CASE out.kind = "resolve" ->
           /\ Settle(Resolved(out.val))
           /\ UNCHANGED <<fetched, uncaught>>
      [] out.kind = "reject" ->
           /\ Settle(Rejected(out.err))
           /\ UNCHANGED <<fetched, uncaught>>
      [] out.kind = "gunzip" ->
           /\ pc' = "gunzip"
           /\ fetched' = data
           /\ UNCHANGED <<result, settles, uncaught>>
      [] OTHER ->
           /\ pc' = "thrown"
           /\ uncaught' = uncaught \cup {out.err}
           /\ UNCHANGED <<result, settles, fetched>>

GunzipCallback ==
    /\ ~crashed
    /\ op = "get"
    /\ pc = "gunzip"
    /\ ApplyFormat(FormatGunzipped(fetched, args.returnType), fetched)
    /\ UNCHANGED <<retryMax, op, args, param, attempt, delay, calls, store,
                   inv, crashed>>

----------------------------------------------------------------------------
(* utils.retry(fn, args, retryable, retryMax)                              *)

BaseDelay == 1

RECURSIVE Pow2(_)
Pow2(n) == IF n <= 0 THEN 1 ELSE 2 * Pow2(n - 1)

\* delay between attempt n and attempt n + 1
Backoff(n) == BaseDelay * Pow2(n - 1)

\* The executor gives up on an error that is not retryable, and on the
\* error of attempt number maxAttempts.
RetryGivesUp(err, n, maxAttempts) == ~err.retryable \/ n >= maxAttempts

\* Mutant: the first call is counted among the attempts
GetRetryArgOneLess == retryMax - 1

\* The maxAttempts argument getObject and putJsonObject pass to utils.retry
GetRetryArg == retryMax
PutRetryArg == retryMax

RetryArg == IF op = "get" THEN GetRetryArg ELSE PutRetryArg

\* An attempt of utils.retry failed with err
RetryFailed(err) ==
    IF RetryGivesUp(err, attempt, RetryArg)
    THEN /\ Settle(Rejected(err))
         /\ calls' = Answer(calls, ErrStatus(err), err)
         /\ UNCHANGED <<attempt, delay>>
    ELSE /\ pc' = "backoff"
         /\ delay' = Backoff(attempt)
         /\ calls' = Answer(calls, ErrStatus(err), err)
         /\ UNCHANGED <<attempt, result, settles>>

\* The suspension between two attempts ends: the next attempt is issued
RetryBackoff ==
    /\ ~crashed
    /\ pc = "backoff"
    /\ attempt' = attempt + 1
    /\ calls' = Issue(calls, IF op = "get" THEN "Get" ELSE "Put", param)
    /\ pc' = "retry"
    /\ UNCHANGED <<retryMax, op, args, param, delay, fetched, result, settles,
                   store, inv, uncaught, crashed>>

\* utils.retry is entered: its first attempt is issued at once
EnterRetry(name, err) ==
    /\ attempt' = 1
    /\ calls' = Issue(Answer(calls, ErrStatus(err), err), name, param)
    /\ pc' = "retry"

----------------------------------------------------------------------------
(* getObject                                                               *)

\* default parameter values apply to an undefined argument
Default(x, d) == IF x = Undefined THEN d ELSE x

\* Mutant: the type of gzip is not checked
GetObjectValidNoGzip(bucket, key, returnType, gzip) ==
    /\ TypeOf(bucket) = "string"
    /\ TypeOf(key) = "string"
    /\ TypeOf(returnType) = "string"
    /\ returnType.s \in GET_OBJECT_RETURN_TYPE_ALLOWED

GetObjectValid(bucket, key, returnType, gzip) ==
    /\ TypeOf(bucket) = "string"
    /\ TypeOf(key) = "string"
    /\ TypeOf(returnType) = "string"
    /\ returnType.s \in GET_OBJECT_RETURN_TYPE_ALLOWED
    /\ TypeOf(gzip) = "boolean"

\* Mutant: every error of the first call is retried
GetObjectRetriesAlways(err) == TRUE

\* if (err.retryable) in the callback of the first this.cli.getObject
GetObjectRetries(err) == err.retryable

\* !data.Body || !Buffer.isBuffer(data.Body)
BodyMissing(data) == Falsy(data.Body) \/ ~IsBuffer(data.Body)

BucketArgs == { Str("b"), Str(""), Num("1") }
KeyArgs == { Str("k"), Str(""), Undefined }
ReturnTypeArgs ==
    { Str(r) : r \in GET_OBJECT_RETURN_TYPE_ALLOWED } \cup { Str("xml"), Undefined }
GzipArgs == { Bool("true"), Bool("false"), Str("yes"), Undefined }

\* const param of getObject
GetParam(bucket, key) == [Bucket |-> bucket.s, Key |-> key.s]

GetObject(bucket, key, returnTypeArg, gzipArg) ==
    LET returnType == Default(returnTypeArg, Str("object"))
        gzip == Default(gzipArg, Bool("false"))
    IN
    /\ ~crashed
    /\ op = "none"
    /\ op' = "get"
    /\ args' = [bucket |-> bucket, key |-> key, returnTypeArg |-> returnTypeArg,
                gzipArg |-> gzipArg, returnType |-> returnType.s,
                gzip |-> gzip.s = "true"]
    /\ IF ~GetObjectValid(bucket, key, returnType, gzip)
       THEN /\ Settle(Rejected(Err("S3_TOOLS_BAD_PARAM_GetObject")))
            /\ UNCHANGED <<param, calls>>
       ELSE /\ param' = GetParam(bucket, key)
            /\ calls' = Issue(calls, "Get", param')
            /\ pc' = "first"
            /\ UNCHANGED <<result, settles>>
    /\ UNCHANGED <<retryMax, attempt, delay, fetched, store, inv, uncaught, crashed>>

\* The callback of the first this.cli.getObject, called with an error
GetObjectFirstError(err) ==
    /\ ~crashed
    /\ op = "get"
    /\ pc = "first"
    /\ IF GetObjectRetries(err)
       THEN /\ EnterRetry("Get", err)
            /\ UNCHANGED <<result, settles>>
       ELSE /\ Settle(Rejected(err))
            /\ calls' = Answer(calls, ErrStatus(err), err)
            /\ UNCHANGED attempt
    /\ UNCHANGED <<retryMax, op, args, param, delay, fetched, store, inv,
                   uncaught, crashed>>

\* Mutant: a response without a usable body is fetched again
GetObjectFirstDataRefetch(data) ==
    /\ ~crashed
    /\ op = "get"
    /\ pc = "first"
    /\ IF BodyMissing(data)
       THEN /\ attempt' = 1
            /\ calls' = Issue(Answer(calls, "ok", data), "Get", param)
            /\ pc' = "retry"
            /\ UNCHANGED <<result, settles, fetched, uncaught>>
       ELSE /\ calls' = Answer(calls, "ok", data)
            /\ UNCHANGED attempt
            /\ ApplyFormat(FormatSync(data, args.returnType, args.gzip), data)
    /\ UNCHANGED <<retryMax, op, args, param, delay, store, inv, crashed>>

\* The callback of the first this.cli.getObject, called with data
GetObjectFirstData(data) ==
    /\ ~crashed
    /\ op = "get"
    /\ pc = "first"
    /\ calls' = Answer(calls, "ok", data)
    /\ IF BodyMissing(data)
       THEN /\ Settle(Rejected(Err(FILE_NOT_EXIST)))
            /\ UNCHANGED <<fetched, uncaught>>
       ELSE ApplyFormat(FormatSync(data, args.returnType, args.gzip), data)
    /\ UNCHANGED <<retryMax, op, args, param, attempt, delay, store, inv, crashed>>

\* An attempt of utils.retry for getObject fails
GetObjectRetryError(err) ==
    /\ ~crashed
    /\ op = "get"
    /\ pc = "retry"
    /\ RetryFailed(err)
    /\ UNCHANGED <<retryMax, op, args, param, fetched, store, inv, uncaught, crashed>>

\* utils.retry resolves with data: it is formatted as it is
GetObjectRetryData(data) ==
    /\ ~crashed
    /\ op = "get"
    /\ pc = "retry"
    /\ calls' = Answer(calls, "ok", data)
    /\ ApplyFormat(FormatSync(data, args.returnType, args.gzip), data)
    /\ UNCHANGED <<retryMax, op, args, param, attempt, delay, store, inv, crashed>>

----------------------------------------------------------------------------
(* putJsonObject                                                           *)

PutJsonObjectValid(bucket, key, json) ==
    /\ TypeOf(bucket) = "string"
    /\ TypeOf(key) = "string"
    /\ TypeOf(json) = "object"

\* if (err.retryable) in the callback of the first this.cli.putObject
PutJsonObjectRetries(err) == err.retryable

JsonArgs ==
    { Obj(<< <<"a", "1">> >>), Obj(<<>>), Obj(<< <<"a", "1">>, <<"b", "2">> >>),
      Obj(<< <<"a", "undefined">> >>), Null, Str("x"), Num("1"), Undefined }

\* Mutant: the content type is left to the default of the service
PutParamNoJsonType(bucket, key, json) ==
    [Bucket |-> bucket.s, Key |-> key.s, Body |-> JSONStringify(json),
     ContentType |-> "application/octet-stream"]

\* const param of putJsonObject
PutParam(bucket, key, json) ==
    [Bucket |-> bucket.s, Key |-> key.s, Body |-> JSONStringify(json),
     ContentType |-> "application/json"]

PutJsonObject(bucket, key, json) ==
    /\ ~crashed
    /\ op = "none"
    /\ op' = "put"
    /\ args' = [bucket |-> bucket, key |-> key, json |-> json]
    /\ IF ~PutJsonObjectValid(bucket, key, json)
       THEN /\ Settle(Rejected(Err("S3_TOOLS_BAD_PARAM_PutObject")))
            /\ UNCHANGED <<param, calls>>
       ELSE /\ param' = PutParam(bucket, key, json)
            /\ calls' = Issue(calls, "Put", param')
            /\ pc' = "first"
            /\ UNCHANGED <<result, settles>>
    /\ UNCHANGED <<retryMax, attempt, delay, fetched, store, inv, uncaught, crashed>>

\* The callback of the first this.cli.putObject, called with an error
PutJsonObjectFirstError(err) ==
    /\ ~crashed
    /\ op = "put"
    /\ pc = "first"
    /\ IF PutJsonObjectRetries(err)
       THEN /\ EnterRetry("Put", err)
            /\ UNCHANGED <<result, settles>>
       ELSE /\ Settle(Rejected(err))
            /\ calls' = Answer(calls, ErrStatus(err), err)
            /\ UNCHANGED attempt
    /\ UNCHANGED <<retryMax, op, args, param, delay, fetched, store, inv,
                   uncaught, crashed>>

\* The callback of the first this.cli.putObject, called with data
PutJsonObjectFirstData(data) ==
    /\ ~crashed
    /\ op = "put"
    /\ pc = "first"
    /\ calls' = Answer(calls, "ok", data)
    /\ Settle(Resolved(data))
    /\ UNCHANGED <<retryMax, op, args, param, attempt, delay, fetched, store,
                   inv, uncaught, crashed>>

PutJsonObjectRetryError(err) ==
    /\ ~crashed
    /\ op = "put"
    /\ pc = "retry"
    /\ RetryFailed(err)
    /\ UNCHANGED <<retryMax, op, args, param, fetched, store, inv, uncaught, crashed>>

\* Mutant: the response of utils.retry is dropped
PutJsonObjectRetryDataNoAck(data) ==
    /\ ~crashed
    /\ op = "put"
    /\ pc = "retry"
    /\ calls' = Answer(calls, "ok", data)
    /\ Settle(Resolved(Undefined))
    /\ UNCHANGED <<retryMax, op, args, param, attempt, delay, fetched, store,
                   inv, uncaught, crashed>>

PutJsonObjectRetryData(data) ==
    /\ ~crashed
    /\ op = "put"
    /\ pc = "retry"
    /\ calls' = Answer(calls, "ok", data)
    /\ Settle(Resolved(data))
    /\ UNCHANGED <<retryMax, op, args, param, attempt, delay, fetched, store,
                   inv, uncaught, crashed>>

----------------------------------------------------------------------------
(* emptyS3Directory                                                        *)

Min(a, b) == IF a <= b THEN a ELSE b

\* listObjectsV2: the first page of the keys under the prefix
ListPage(keys) ==
    [Contents |-> [j \in 1..Min(PageSize, Len(keys)) |-> [Key |-> keys[j]]],
     IsTruncated |-> Len(keys) > PageSize]

RECURSIVE Without(_, _)
\* deleteObjects: the keys of the batch are removed from the store
Without(keys, gone) ==
    IF keys = <<>> THEN <<>>
    ELSE IF keys[1] \in gone THEN Without(Tail(keys), gone)
    ELSE <<keys[1]>> \o Without(Tail(keys), gone)

\* Mutant: the keys are put in front of the batch instead of pushed
DeleteObjectsReversed(contents) ==
    [j \in 1..Len(contents) |-> [Key |-> contents[Len(contents) + 1 - j].Key]]

\* Mutant: the last key of the page is left out of the batch
DeleteObjectsDropLast(contents) ==
    [j \in 1..(Len(contents) - 1) |-> [Key |-> contents[j].Key]]

\* listedObjects.Contents.forEach(({ Key }) => Objects.push({ Key }))
DeleteObjects(contents) == [j \in 1..Len(contents) |-> [Key |-> contents[j].Key]]

DeleteParams(bucket, contents) ==
    [Bucket |-> bucket, Delete |-> [Objects |-> DeleteObjects(contents)]]

ListParams(bucket, dir) == [Bucket |-> bucket, Prefix |-> dir]

\* Mutant: the early return on an empty page is missing
PageEmptyNever(listed) == FALSE

\* listedObjects.Contents.length === 0
PageEmpty(listed) == Len(listed.Contents) = 0

\* if (listedObjects.IsTruncated)
MorePages(listed) == listed.IsTruncated

\* emptyS3Directory invocations that have started and not yet returned
Active(invs) == { i \in 1..Len(invs) : invs[i].pc # "done" }

\* A new invocation; active is the number of invocations active at the
\* moment it starts, itself included.
NewInvocation ==
    [pc |-> "list", listed |-> ListPage(<<>>), result |-> Pending, active |-> 1]

\* A promise has no method bind: the expression
\* this.emptyS3Directory(bucket, dir).bind(this) starts the inner invocation
\* and then throws.
BindError == Err("TypeError")

\* An invocation settles.  The promise of an inner invocation has no handler:
\* its rejection is an unhandled rejection.
Finish(i, r) ==
    /\ inv' = [inv EXCEPT ![i].pc = "done", ![i].result = r]
    /\ uncaught' = IF i > 1 /\ r.kind = "rejected"
                   THEN uncaught \cup {r.err} ELSE uncaught

EmptyS3Directory(bucket, dir) ==
    /\ ~crashed
    /\ op = "none"
    /\ op' = "empty"
    /\ args' = [bucket |-> bucket, dir |-> dir]
    /\ inv' = <<NewInvocation>>
    /\ calls' = Issue(calls, "List", ListParams(bucket, dir))
    /\ UNCHANGED <<retryMax, param, pc, attempt, delay, fetched, result,
                   settles, store, uncaught, crashed>>

\* await this.cli.listObjectsV2(listParams).promise() rejects
ListError(i, err) ==
    /\ ~crashed
    /\ op = "empty"
    /\ i \in 1..Len(inv)
    /\ inv[i].pc = "list"
    /\ calls' = Answer(calls, ErrStatus(err), err)
    /\ Finish(i, Rejected(err))
    /\ UNCHANGED <<retryMax, op, args, param, pc, attempt, delay, fetched,
                   result, settles, store, crashed>>

\* await this.cli.listObjectsV2(listParams).promise() returns a page
ListData(i) ==
    LET listed == ListPage(store)
    IN
    /\ ~crashed
    /\ op = "empty"
    /\ i \in 1..Len(inv)
    /\ inv[i].pc = "list"
    /\ IF PageEmpty(listed)
       THEN /\ inv' = [inv EXCEPT ![i].pc = "done", ![i].listed = listed,
                                  ![i].result = Resolved(Undefined)]
            /\ calls' = Answer(calls, "ok", listed)
       ELSE /\ inv' = [inv EXCEPT ![i].pc = "delete", ![i].listed = listed]
            /\ calls' = Issue(Answer(calls, "ok", listed), "Delete",
                              DeleteParams(args.bucket, listed.Contents))
    /\ UNCHANGED <<retryMax, op, args, param, pc, attempt, delay, fetched,
                   result, settles, store, uncaught, crashed>>

\* await this.cli.deleteObjects(deleteParams).promise() rejects
DeleteError(i, err) ==
    /\ ~crashed
    /\ op = "empty"
    /\ i \in 1..Len(inv)
    /\ inv[i].pc = "delete"
    /\ calls' = Answer(calls, ErrStatus(err), err)
    /\ Finish(i, Rejected(err))
    /\ UNCHANGED <<retryMax, op, args, param, pc, attempt, delay, fetched,
                   result, settles, store, crashed>>

\* await this.cli.deleteObjects(deleteParams).promise() returns
DeleteData(i) ==
    LET batch == calls[Len(calls)].param.Delete.Objects
    IN
    /\ ~crashed
    /\ op = "empty"
    /\ i \in 1..Len(inv)
    /\ inv[i].pc = "delete"
    /\ store' = Without(store, { batch[j].Key : j \in 1..Len(batch) })
    /\ IF MorePages(inv[i].listed)
       THEN /\ inv' = Append([inv EXCEPT ![i].pc = "done",
                                         ![i].result = Rejected(BindError)],
                             [NewInvocation EXCEPT
                                !.active = Cardinality(Active(inv)) + 1])
            /\ calls' = Issue(Answer(calls, "ok", Ack(Len(calls))), "List",
                              ListParams(args.bucket, args.dir))
            /\ uncaught' = IF i > 1 THEN uncaught \cup {BindError} ELSE uncaught
       ELSE /\ Finish(i, Resolved(Undefined))
            /\ calls' = Answer(calls, "ok", Ack(Len(calls)))
    /\ UNCHANGED <<retryMax, op, args, param, pc, attempt, delay, fetched,
                   result, settles, crashed>>

\* An uncaught exception or an unhandled rejection may terminate the process
ProcessExit ==
    /\ ~crashed
    /\ uncaught # {}
    /\ crashed' = TRUE
    /\ UNCHANGED <<retryMax, op, args, param, pc, attempt, delay, fetched,
                   result, settles, calls, store, inv, uncaught>>

----------------------------------------------------------------------------

DirArgs == { Str("d/") }

Next ==
    \/ \E b \in BucketArgs, k \in KeyArgs, r \in ReturnTypeArgs, g \in GzipArgs :
          GetObject(b, k, r, g)
    \/ \E e \in ErrorsOf(Len(calls)) : GetObjectFirstError(e)
    \/ \E body \in Bodies : GetObjectFirstData(Data(body))
    \/ \E e \in ErrorsOf(Len(calls)) : GetObjectRetryError(e)
    \/ \E body \in Bodies : GetObjectRetryData(Data(body))
    \/ GunzipCallback
    \/ \E b \in BucketArgs, k \in KeyArgs, j \in JsonArgs : PutJsonObject(b, k, j)
    \/ \E e \in ErrorsOf(Len(calls)) : PutJsonObjectFirstError(e)
    \/ PutJsonObjectFirstData(Ack(Len(calls)))
    \/ \E e \in ErrorsOf(Len(calls)) : PutJsonObjectRetryError(e)
    \/ PutJsonObjectRetryData(Ack(Len(calls)))
    \/ RetryBackoff
    \/ \E b \in BucketArgs, d \in DirArgs : EmptyS3Directory(b, d)
    \/ \E i \in 1..Len(inv), e \in ErrorsOf(Len(calls)) : ListError(i, e)
    \/ \E i \in 1..Len(inv) : ListData(i)
    \/ \E i \in 1..Len(inv), e \in ErrorsOf(Len(calls)) : DeleteError(i, e)
    \/ \E i \in 1..Len(inv) : DeleteData(i)
    \/ ProcessExit

Spec == Init /\ [][Next]_vars

----------------------------------------------------------------------------
(* A caller that stores a value and reads it back:                         *)
(*   await putJsonObject(bucket, key, json);                               *)
(*   await getObject(bucket, key, "object", false)                         *)

\* index in the log of the last Put that succeeded, 0 if there is none
LastOkPut ==
    LET ok == { i \in 1..Len(calls) : calls[i].op = "Put" /\ calls[i].status = "ok" }
    IN IF ok = {} THEN 0 ELSE CHOOSE i \in ok : \A j \in ok : j <= i

\* The object the service holds under (bucket, key) after the Put: a Buffer
\* of the Body that was put
StoredObject ==
    IF LastOkPut = 0 THEN NoBody ELSE Buffer(calls[LastOkPut].param.Body)

\* After putJsonObject has resolved the caller calls getObject on the same
\* bucket and key; json is the value the caller has put.
ReadBack ==
    /\ ~crashed
    /\ op = "put"
    /\ pc = "done"
    /\ result.kind = "resolved"
    /\ op' = "get"
    /\ args' = [bucket |-> args.bucket, key |-> args.key,
                returnTypeArg |-> Str("object"), gzipArg |-> Bool("false"),
                returnType |-> "object", gzip |-> FALSE, json |-> args.json]
    /\ param' = GetParam(args.bucket, args.key)
    /\ calls' = Issue(calls, "Get", param')
    /\ pc' = "first"
    /\ attempt' = 0
    /\ delay' = 0
    /\ result' = Pending
    /\ settles' = 0
    /\ UNCHANGED <<retryMax, fetched, store, inv, uncaught, crashed>>

NextRoundTrip ==
    \/ \E b \in BucketArgs, k \in KeyArgs, j \in JsonArgs : PutJsonObject(b, k, j)
    \/ \E e \in ErrorsOf(Len(calls)) : PutJsonObjectFirstError(e)
    \/ PutJsonObjectFirstData(Ack(Len(calls)))
    \/ \E e \in ErrorsOf(Len(calls)) : PutJsonObjectRetryError(e)
    \/ PutJsonObjectRetryData(Ack(Len(calls)))
    \/ RetryBackoff
    \/ ReadBack
    \/ \E e \in ErrorsOf(Len(calls)) : GetObjectFirstError(e)
    \/ GetObjectFirstData(Data(StoredObject))
    \/ \E e \in ErrorsOf(Len(calls)) : GetObjectRetryError(e)
    \/ GetObjectRetryData(Data(StoredObject))

SpecRoundTrip == Init /\ [][NextRoundTrip]_vars

----------------------------------------------------------------------------
(* Properties                                                              *)

CallsOf(name) == { i \in 1..Len(calls) : calls[i].op = name }

LastCall == calls[Len(calls)]

AllAttemptsFailedRetryably ==
    /\ Len(calls) >= 1
    /\ \A i \in 1..Len(calls) : calls[i].status = "retryable"

NoCallFailed == \A i \in 1..Len(calls) : calls[i].status \in {"ok", "inflight"}

NonEmptyString(x) == TypeOf(x) = "string" /\ x.s # ""

\* C1, as claimed: when every Get/Put attempt of a getObject or
\* putJsonObject invocation fails with a retryable error, the storage
\* operation is invoked exactly retryMax times in total and the invocation
\* fails with the error of attempt number retryMax.
C1_ExactlyMaxAttemptsCalls ==
    (op \in {"get", "put"} /\ pc = "done" /\ AllAttemptsFailedRetryably)
    => /\ Len(calls) = retryMax
       /\ result = Rejected(calls[retryMax].resp)

\* C1, amended: in that case the storage operation is invoked exactly
\* retryMax + 1 times, the first call and the retryMax attempts of
\* utils.retry, and the invocation fails with the error of the last attempt.
C1_FirstCallPlusMaxAttempts ==
    (op \in {"get", "put"} /\ pc = "done" /\ AllAttemptsFailedRetryably)
    => /\ Len(calls) = retryMax + 1
       /\ \A i \in 1..Len(calls) :
             calls[i].op = (IF op = "get" THEN "Get" ELSE "Put")
       /\ result = Rejected(calls[retryMax + 1].resp)
       /\ result.err.call = retryMax + 1

C1_Witness ==
    /\ op = "get"
    /\ pc = "done"
    /\ AllAttemptsFailedRetryably
    /\ retryMax >= 2
    /\ result.kind = "rejected"

\* C6: when the first Get or Put fails with an error that is not retryable,
\* the invocation makes exactly one remote call and is rejected with that
\* same error.
C6_FatalFirstErrorPropagates ==
    (op \in {"get", "put"} /\ Len(calls) >= 1 /\ calls[1].status = "fatal")
    => /\ Len(calls) = 1
       /\ pc = "done"
       /\ settles = 1
       /\ result = Rejected(calls[1].resp)

C6_Witness ==
    /\ op = "get"
    /\ Len(calls) = 1
    /\ calls[1].status = "fatal"
    /\ result = Rejected(ServiceError(FALSE, 1))

BadParamGet == Rejected(Err("S3_TOOLS_BAD_PARAM_GetObject"))
BadParamPut == Rejected(Err("S3_TOOLS_BAD_PARAM_PutObject"))

ReturnTypeOutsideEnum ==
    LET r == Default(args.returnTypeArg, Str("object"))
    IN ~(TypeOf(r) = "string" /\ r.s \in {"string", "buffer", "object", "all"})

GzipNotBoolean == TypeOf(Default(args.gzipArg, Bool("false"))) # "boolean"

\* C7, as claimed: getObject with a bucket or key that is empty or not a
\* string, a return type outside the four values or a gzip flag that is not
\* a boolean is rejected with the bad-parameter error and makes no remote
\* call.
C7_EmptyOrBadArgsRejected ==
    (op = "get" /\ (\/ ~NonEmptyString(args.bucket)
                    \/ ~NonEmptyString(args.key)
                    \/ ReturnTypeOutsideEnum
                    \/ GzipNotBoolean))
    => (result = BadParamGet /\ calls = <<>>)

\* C7, amended: getObject with a bucket or key that is not a string, a
\* return type outside the four values or a gzip flag that is not a boolean
\* (an omitted return type or flag taking its default) is rejected with the
\* bad-parameter error and makes no remote call.
C7_BadArgsRejected ==
    (op = "get" /\ (\/ TypeOf(args.bucket) # "string"
                    \/ TypeOf(args.key) # "string"
                    \/ ReturnTypeOutsideEnum
                    \/ GzipNotBoolean))
    => (result = BadParamGet /\ calls = <<>> /\ pc = "done" /\ settles = 1)

C7_Witness ==
    /\ op = "get"
    /\ args.bucket = Str("b")
    /\ args.key = Str("k")
    /\ args.returnTypeArg = Str("all")
    /\ args.gzipArg = Str("yes")
    /\ result = BadParamGet
    /\ calls = <<>>

Structured(v) == TypeOf(v) = "object" /\ v.k # "null"

\* C8: putJsonObject with a bucket or key that is empty or not a string, or
\* with a value that is not a structured value (null included), is rejected
\* with the bad-parameter error and makes no remote call.
C8_BadPutArgsRejected ==
    (op = "put" /\ (\/ ~NonEmptyString(args.bucket)
                    \/ ~NonEmptyString(args.key)
                    \/ ~Structured(args.json)))
    => (result = BadParamPut /\ calls = <<>>)

NoUsableBody(body) ==
    body.kind = "undefined" \/ body.kind # "buffer" \/ body.bytes = <<>>

\* C5: a getObject whose Get succeeds, on the first attempt or on a retried
\* one, with no body or an empty or invalid body is rejected with the
\* not-found error, whatever the return type and the gzip flag.
C5_NoBodyIsNotFound ==
    (op = "get" /\ pc = "done" /\ Len(calls) >= 1 /\ LastCall.status = "ok"
       /\ NoUsableBody(LastCall.resp.Body))
    => result = Rejected(Err(FILE_NOT_EXIST))

\* the payload handed to JSON.parse: the body, gunzipped when gzip is set
Payload(body) ==
    IF args.gzip THEN Gunzip(body.bytes) ELSE [ok |-> TRUE, bytes |-> body.bytes]

\* C9: a getObject with return type "object" whose fetched payload, after
\* decompression when gzip is set, is not JSON is rejected towards its caller
\* with the parse error, with and without gzip.
C9_ParseFailureRejects ==
    (op = "get" /\ args.returnType = "object" /\ pc \in {"done", "thrown"}
       /\ Len(calls) >= 1 /\ LastCall.status = "ok"
       /\ ~NoUsableBody(LastCall.resp.Body)
       /\ Payload(LastCall.resp.Body).ok
       /\ ~JSONParse(Payload(LastCall.resp.Body).bytes).ok)
    => result = Rejected(SyntaxError)

\* C10: within one getObject, once a Get has succeeded no further Get is
\* issued: a successful Get is the last call of the log, and the not-found,
\* decompression and parse errors are surfaced with that successful Get as
\* the last call, on the first-attempt path and on the retry path.
C10_NoGetAfterSuccess ==
    op = "get"
    => /\ \A i \in 1..Len(calls) : calls[i].status = "ok" => i = Len(calls)
       /\ (result.kind = "rejected"
           /\ result.err.name \in {FILE_NOT_EXIST, "Z_DATA_ERROR", "SyntaxError"})
          => (LastCall.status = "ok" /\ pc = "done")

C10_Witness ==
    /\ op = "get"
    /\ attempt >= 2
    /\ pc = "done"
    /\ LastCall.status = "ok"
    /\ result = Rejected(ZlibError)

RECURSIVE DeletedIn(_)
\* number of keys removed by the Delete calls of a log that succeeded
DeletedIn(log) ==
    IF log = <<>> THEN 0
    ELSE (IF log[1].op = "Delete" /\ log[1].status = "ok"
          THEN Len(log[1].param.Delete.Objects) ELSE 0) + DeletedIn(Tail(log))

\* number of keys under the prefix when emptyS3Directory was called
Objects0 == Len(store) + DeletedIn(calls)

Pages(n) == (n + PageSize - 1) \div PageSize

Returned1 == op = "empty" /\ Len(inv) >= 1 /\ inv[1].pc = "done"

\* C2: emptyS3Directory on a prefix whose listing spans k >= 1 non-empty
\* pages (3 in particular), every call succeeding, has issued exactly k List
\* and k Delete calls when it returns, and a List afterwards returns no key.
C2_KPagesKListsKDeletes ==
    (Returned1 /\ NoCallFailed /\ Pages(Objects0) >= 1)
    => /\ Cardinality(CallsOf("List")) = Pages(Objects0)
       /\ Cardinality(CallsOf("Delete")) = Pages(Objects0)
       /\ ListPage(store).Contents = <<>>

\* C3: when every List and Delete succeeds, emptyS3Directory returns success
\* to its caller, also when listing pages were truncated.
C3_TruncatedPagesSucceed ==
    (Returned1 /\ NoCallFailed) => inv[1].result.kind = "resolved"

\* C4: whenever an emptyS3Directory invocation completes successfully, no
\* object remains under the prefix.
C4_SuccessLeavesPrefixEmpty ==
    \A i \in 1..Len(inv) : inv[i].result.kind = "resolved" => store = <<>>

C4_Witness ==
    /\ Returned1
    /\ inv[1].result.kind = "resolved"
    /\ Cardinality(CallsOf("Delete")) = 1
    /\ Objects0 = PageSize
    /\ store = <<>>


\* C11: getObject with return type "all" on a successful Get with a usable
\* body resolves with the response envelope as received, with and without
\* gzip: nothing is decompressed.
C11_FullResponseUntouched ==
    (op = "get" /\ args.returnType = "all" /\ Len(calls) >= 1
       /\ LastCall.status = "ok" /\ ~NoUsableBody(LastCall.resp.Body))
    => /\ pc = "done"
       /\ settles = 1
       /\ result = Resolved(LastCall.resp)
       /\ uncaught = {}

C11_Witness ==
    /\ op = "get"
    /\ args.returnType = "all"
    /\ args.gzip
    /\ Len(calls) >= 1
    /\ LastCall.status = "ok"
    /\ result = Resolved(Data(Buffer(ValidJson)))


\* C12, as claimed (under SpecRoundTrip): after a successful
\* putJsonObject(bucket, key, v), a getObject(bucket, key, "object", false)
\* that reads back the stored body resolves with a value equal to v.
C12_RoundTripAnyValue ==
    (op = "get" /\ pc = "done" /\ LastCall.status = "ok")
    => result = Resolved(args.json)

\* every field of the value has a JSON representation of its own
JsonRepresentable(v) ==
    v.k = "null" \/ \A i \in 1..Len(v.f) : v.f[i][2] \in JsonPrimTokens

\* C12, amended (under SpecRoundTrip): the read-back value equals v when
\* every field of v has a JSON representation; a field whose value is
\* undefined is dropped by JSON.stringify and is missing from the result.
C12_RoundTripJsonValue ==
    (op = "get" /\ pc = "done" /\ LastCall.status = "ok"
       /\ JsonRepresentable(args.json))
    => result = Resolved(args.json)

C12_Witness ==
    /\ op = "get"
    /\ pc = "done"
    /\ LastCall.status = "ok"
    /\ args.json = Obj(<< <<"a", "1">>, <<"b", "2">> >>)
    /\ result = Resolved(args.json)


\* C13: a putJsonObject that resolves returns the acknowledgement of the Put
\* attempt that succeeded, which is the last Put issued: when the first Put
\* succeeds it is the only Put, and after retryable failures it is the
\* acknowledgement of the later attempt that succeeded.
C13_AckOfSuccessfulPut ==
    (op = "put" /\ result.kind = "resolved")
    => /\ LastCall.op = "Put"
       /\ LastCall.status = "ok"
       /\ result.val = LastCall.resp
       /\ result.val = Ack(Len(calls))
       /\ \A i \in 1..(Len(calls) - 1) : calls[i].status = "retryable"
       /\ calls[1].status = "ok" => Len(calls) = 1

C13_Witness ==
    /\ op = "put"
    /\ attempt >= 2
    /\ result = Resolved(Ack(3))
    /\ calls[1].status = "retryable"


\* C14: emptyS3Directory on a prefix whose first listing page is empty
\* returns success after exactly one List call and no Delete call.
C14_EmptyFirstPage ==
    (op = "empty" /\ calls[1].status = "ok" /\ calls[1].resp.Contents = <<>>)
    => /\ Len(calls) = 1
       /\ calls[1].op = "List"
       /\ CallsOf("Delete") = {}
       /\ Len(inv) = 1
       /\ inv[1].pc = "done"
       /\ inv[1].result = Resolved(Undefined)
       /\ uncaught = {}

C14_Witness ==
    /\ op = "empty"
    /\ calls[1].status = "ok"
    /\ calls[1].resp.Contents = <<>>
    /\ inv[1].result.kind = "resolved"
    /\ Len(calls) = 1

\* the keys of a page or of a batch, in order
KeysOf(objects) == [j \in 1..Len(objects) |-> objects[j].Key]

\* C15: in every emptyS3Directory run List and Delete calls alternate,
\* starting with List; each Delete follows a List that returned a page that
\* is not empty, and its batch holds exactly the keys of that page, in the
\* order of the page, for the bucket of the List.
C15_ListDeleteAlternate ==
    op = "empty"
    => \A i \in 1..Len(calls) :
          IF i % 2 = 1
          THEN /\ calls[i].op = "List"
               /\ calls[i].param = ListParams(args.bucket, args.dir)
          ELSE /\ calls[i].op = "Delete"
               /\ calls[i - 1].status = "ok"
               /\ calls[i - 1].resp.Contents # <<>>
               /\ KeysOf(calls[i].param.Delete.Objects)
                    = KeysOf(calls[i - 1].resp.Contents)
               /\ calls[i].param.Bucket = calls[i - 1].param.Bucket

C15_Witness ==
    /\ op = "empty"
    /\ Len(calls) >= 4
    /\ calls[4].op = "Delete"
    /\ KeysOf(calls[2].param.Delete.Objects) = <<1, 2>>
    /\ KeysOf(calls[4].param.Delete.Objects) = <<3, 4>>


\* C16: emptyS3Directory handles the pages in a loop: at every point of a
\* run at most one emptyS3Directory invocation of the caller's request is
\* active, whatever the number of pages.
C16_OneActiveInvocation ==
    op = "empty"
    => /\ \A i \in 1..Len(inv) : inv[i].active <= 1
       /\ Cardinality(Active(inv)) <= 1


\* C17: once an emptyS3Directory, getObject or putJsonObject invocation has
\* returned to its caller, with success or with an error, no remote call
\* of that invocation is in flight; an emptyS3Directory that has failed
\* issues no further List or Delete.
C17_NoCallAfterReturn ==
    ((op \in {"get", "put"} /\ pc = "done") \/ Returned1)
    => \A i \in 1..Len(calls) : calls[i].status # "inflight"

\* C18: a getObject or putJsonObject invocation that waits for nothing any
\* more (no remote call in flight, no backoff, no gunzip callback pending)
\* has settled exactly once, with a result or with an error.
C18_SettlesExactlyOnce ==
    (op \in {"get", "put"} /\ pc \notin {"first", "retry", "backoff", "gunzip"})
    => (settles = 1 /\ result.kind \in {"resolved", "rejected"})

\* C19: every Get of a getObject invocation, first attempt and retried
\* attempts, targets the bucket and key passed by the caller, and every Put
\* of a putJsonObject invocation carries the same bucket, key, serialized
\* body and the JSON content type.
C19_SameArgumentsEveryAttempt ==
    /\ op = "get"
       => \A i \in 1..Len(calls) :
             /\ calls[i].op = "Get"
             /\ calls[i].param = [Bucket |-> args.bucket.s, Key |-> args.key.s]
    /\ op = "put"
       => \A i \in 1..Len(calls) :
             /\ calls[i].op = "Put"
             /\ calls[i].param.Bucket = args.bucket.s
             /\ calls[i].param.Key = args.key.s
             /\ calls[i].param.Body = JSONStringify(args.json)
             /\ calls[i].param.ContentType = "application/json"
             /\ calls[i].param = calls[1].param

C19_Witness ==
    /\ op = "get"
    /\ Len(calls) >= 3
    /\ attempt >= 2
    /\ \A i \in 1..Len(calls) : calls[i].param = [Bucket |-> "b", Key |-> "k"]

====
